---- MODULE Spec2Model ----
(***************************************************************************)
(* Model of the Shopify app backend: the installation state machine over   *)
(* the shopify_shopifystore table (server.py, shopify_client.py) and the   *)
(* order webhook workflow (shopify_munging.py).                            *)
(*                                                                         *)
(* Every HTTP request runs in a slot of Req.  A request advances one       *)
(* database statement (or one run of Gateway calls) per step, because the  *)
(* code wraps no handler in a transaction: under Spec the steps of         *)
(* different requests interleave, under SeqSpec a request starts only      *)
(* when no other request is in flight.                                     *)
(***************************************************************************)
EXTENDS Integers, Sequences, FiniteSets, TLC

VARIABLES store, clock, nonces, req, resp, hist, tables

vars == <<store, clock, nonces, req, resp, hist, tables>>

\* ---------------------------------------------------------------- bounds
\* Requests in flight at once, timestamped writes (installs, confirmations,
\* uninstalls) in a behaviour, deliveries of the orders/create webhook, and
\* calls of create_prds_on_shopify.
MaxReq == 2
MaxClock == 4
MaxDeliveries == 2
MaxIssues == 2

Req == 1..MaxReq

\* ---------------------------------------------------------------- values
\* A nullable column or Python Optional is a sequence: <<>> for NULL / None,
\* <<v>> for the value v.
NULL == <<>>
Some(v) == <<v>>
Val(opt) == opt[1]

NOT_KNOWN == "NOT_KNOWN"
INSTALL_REQUESTED == "INSTALL_REQUESTED"
INSTALLED == "INSTALLED"
UNINSTALLED == "UNINSTALLED"

StoreStatus == {NOT_KNOWN, INSTALL_REQUESTED, INSTALLED, UNINSTALLED}

\* The shop hosts requests name, and the raw addresses they arrive as: an
\* address is the list of pieces str.split("https://") returns for it.
ShopHosts == {"s1.myshopify.com"}
ShopAddresses == {<<h>> : h \in ShopHosts}

WEBHOOKS == <<"app/uninstalled", "orders/create", "refunds/create">>

RacId == "rac"
Token == "shpat"

\* ---------------------------------------------------------------- store
strip_shop_address(split_address) ==
    IF Len(split_address) = 1 THEN split_address[1] ELSE split_address[2]

\* SELECT * from shopify_shopifystore WHERE shop_address = ...
query_result(shop) == SelectSeq(store, LAMBDA row : row.shop_address = shop)

get_store_status_swapped(result) ==
    IF result = <<>> THEN NOT_KNOWN
    ELSE IF result[1].uninstall_time # NULL THEN UNINSTALLED
    ELSE IF result[1].install_time = NULL THEN INSTALL_REQUESTED
    ELSE INSTALLED

get_store_status(result) ==
    IF result = <<>> THEN NOT_KNOWN
    ELSE IF result[1].install_time = NULL THEN INSTALL_REQUESTED
    ELSE IF result[1].uninstall_time = NULL THEN INSTALLED
    ELSE UNINSTALLED

\* pd.Series() for an empty result, else the first row.
get_store_data(result) == IF result = <<>> THEN NULL ELSE Some(result[1])

\* An f-string puts a Python value into the SQL text between quotes: None is
\* written as the four letters 'None', not as SQL NULL.
sql_quote(value) == IF value = NULL THEN Some("None") ELSE value

\* UPDATE shopify_shopifystore SET ... WHERE shop_address = shop
update_where(shop, Set(_)) ==
    [i \in DOMAIN store |->
        IF store[i].shop_address = shop THEN Set(store[i]) ELSE store[i]]

new_row(shop, nonce, ask_time) ==
    [shop_address |-> shop, nonce |-> nonce, ask_time |-> ask_time,
     install_time |-> NULL, uninstall_time |-> NULL, access_token |-> NULL,
     needs_rescope |-> FALSE, rac_id |-> NULL]

reinstall_row_keeps_uninstall(row, nonce, ask_time) ==
    [row EXCEPT !.install_time = NULL, !.ask_time = ask_time, !.nonce = nonce,
                !.access_token = NULL, !.needs_rescope = FALSE, !.rac_id = NULL]

reinstall_row(row, nonce, ask_time) ==
    [row EXCEPT !.uninstall_time = NULL, !.install_time = NULL,
                !.ask_time = ask_time, !.nonce = nonce, !.access_token = NULL,
                !.needs_rescope = FALSE, !.rac_id = NULL]

confirm_row(row, install_time, access_token) ==
    [row EXCEPT !.install_time = Some(install_time),
                !.access_token = sql_quote(access_token)]

rac_row(row, rac_id) == [row EXCEPT !.rac_id = Some(rac_id)]

uninstall_row(row, uninstall_time) ==
    [row EXCEPT !.uninstall_time = Some(uninstall_time), !.access_token = NULL,
                !.rac_id = NULL]


\* ---------------------------------------------------------------- requests
IdleReq ==
    [kind |-> "idle", pc |-> "idle", shop |-> NULL, state |-> 0, status |-> "",
     data |-> NULL, token |-> NULL, result |-> "", nonce_out |-> NULL,
     writes |-> 0, calls |-> 0, topics |-> 0, order |-> NULL, idx |-> 0,
     exists |-> NULL, matches |-> <<>>, discount_name |-> NULL]

InFlight(r) == req[r].pc # "idle"

\* PGStoreInterface.__init__: get_store_info sets status and data.
PGStoreInterface(kind, shop) ==
    LET result == query_result(strip_shop_address(shop)) IN
    [IdleReq EXCEPT !.kind = kind, !.shop = shop,
                    !.status = get_store_status(result),
                    !.data = get_store_data(result)]

\* The request returns: what it read, did and answered.
Finish(rec, result) ==
    [rec EXCEPT !.pc = "done", !.result = result, !.idx = 0, !.exists = NULL]

\* The request goes on as rec, or, when rec is finished, frees its slot and
\* rec is the response of this step.  resp is the response the last step
\* sent, IdleReq when it sent none.
Move(r, rec) ==
    IF rec.pc = "done"
    THEN /\ req' = [req EXCEPT ![r] = IdleReq]
         /\ resp' = rec
    ELSE /\ req' = [req EXCEPT ![r] = rec]
         /\ resp' = IdleReq

Orders_in_flight == Cardinality({q \in Req : req[q].kind = "order_created"})

\* A request arrives in the lowest free slot; the bounds leave room for the
\* one timestamped write each request in flight may still make.
Begin(r) ==
    /\ ~InFlight(r)
    /\ \A q \in Req : q < r => InFlight(q)
    /\ clock + Cardinality({q \in Req : InFlight(q)}) < MaxClock

\* ---------------------------------------------------------------- app_launched
launch_branch(status, data) ==
    IF status = NOT_KNOWN THEN "request_install"
    ELSE IF status = UNINSTALLED THEN "request_reinstall"
    ELSE IF status = INSTALLED
         THEN IF Val(data).needs_rescope THEN "request_reinstall"
              ELSE "client_side_app"
    ELSE "400 already installed"

app_launched(r) ==
    \E shop \in ShopAddresses :
        LET sdbi == PGStoreInterface("app_launched", shop)
            branch == launch_branch(sdbi.status, sdbi.data) IN
        /\ Begin(r)
        /\ Move(r, IF branch \in {"request_install", "request_reinstall"}
                   THEN [sdbi EXCEPT !.pc = branch]
                   ELSE Finish(sdbi, branch))
        /\ UNCHANGED <<store, clock, nonces, hist, tables>>

request_install(r) ==
    /\ req[r].pc = "request_install"
    /\ nonces' = nonces + 1
    /\ clock' = clock + 1
    /\ store' = Append(store,
                       new_row(strip_shop_address(req[r].shop), nonces', clock'))
    /\ Move(r, [req[r] EXCEPT !.pc = "get_store_info", !.writes = @ + 1])
    /\ UNCHANGED <<hist, tables>>

request_reinstall(r) ==
    /\ req[r].pc = "request_reinstall"
    /\ nonces' = nonces + 1
    /\ clock' = clock + 1
    /\ store' = update_where(strip_shop_address(req[r].shop),
                             LAMBDA row : reinstall_row(row, nonces', clock'))
    /\ Move(r, [req[r] EXCEPT !.pc = "get_store_info", !.writes = @ + 1])
    /\ UNCHANGED <<hist, tables>>

\* The get_store_info() that ends request_install / request_reinstall, then
\* the redirect built from data["nonce"].
launch_redirect(r) ==
    /\ req[r].pc = "get_store_info"
    /\ LET result == query_result(strip_shop_address(req[r].shop))
           data == get_store_data(result) IN
       Move(r, Finish([req[r] EXCEPT !.status = get_store_status(result),
                                     !.data = data,
                                     !.nonce_out = Some(Val(data).nonce)],
                      "302 authorize"))
    /\ UNCHANGED <<store, clock, nonces, hist, tables>>

\* ---------------------------------------------------------------- app_installed
\* The two guards of app_installed: the rejection it returns, or "" to go on.
install_guard_any_status(status, data, state) ==
    IF status = NOT_KNOWN
    THEN "400 not requested"
    ELSE IF state # Val(data).nonce THEN "400 invalid state"
    ELSE ""

install_guard(status, data, state) ==
    IF status # INSTALL_REQUESTED THEN "400 not requested"
    ELSE IF state # Val(data).nonce THEN "400 invalid state"
    ELSE ""

app_installed(r) ==
    \E shop \in ShopAddresses, state \in 0..nonces :
        LET sdbi == [PGStoreInterface("app_installed", shop)
                        EXCEPT !.state = state]
            reject == install_guard(sdbi.status, sdbi.data, state) IN
        /\ Begin(r)
        /\ Move(r, IF reject # "" THEN Finish(sdbi, reject)
                   ELSE [sdbi EXCEPT !.pc = "authenticate"])
        /\ UNCHANGED <<store, clock, nonces, hist, tables>>

\* What a call to Shopify can come to: a response, an HTTPError (caught, the
\* caller gets None), or an exception of requests that is no HTTPError
\* (ConnectionError), which no except clause catches.
GatewayOutcomes == {"ok", "HTTPError", "raise"}

\* ShopifyStoreClient.authenticate
authenticate(outcome) == IF outcome = "ok" THEN Some(Token) ELSE NULL

\* ACCESS_TOKEN = authenticate(...); confirm_installation(ACCESS_TOKEN)
confirm_installation(r) ==
    /\ req[r].pc = "authenticate"
    /\ \E outcome \in GatewayOutcomes :
        IF outcome = "raise"
        THEN /\ Move(r, Finish([req[r] EXCEPT !.calls = @ + 1], "500"))
             /\ UNCHANGED <<store, clock, hist>>
        ELSE /\ clock' = clock + 1
             /\ store' = update_where(strip_shop_address(req[r].shop),
                    LAMBDA row : confirm_row(row, clock', authenticate(outcome)))
             /\ hist' = [hist EXCEPT !.confirms = Append(@, req[r].state)]
             /\ Move(r, [req[r] EXCEPT !.pc = "create_webhooks",
                                       !.token = authenticate(outcome),
                                       !.calls = @ + 1,
                                       !.writes = @ + 1])
    /\ UNCHANGED <<nonces, tables>>

\* The create_webook call per topic, create_recurring_application_charges,
\* and update_rac_id when the charge came back.  raised is the number of the
\* call that raised (0: none did).
post_install(r) ==
    /\ req[r].pc = "create_webhooks"
    /\ \E raised \in 0..(Len(WEBHOOKS) + 1), rac \in {"ok", "HTTPError"} :
        LET topics == IF raised = 0 \/ raised > Len(WEBHOOKS)
                      THEN Len(WEBHOOKS) ELSE raised
            calls == IF raised = 0 THEN Len(WEBHOOKS) + 1 ELSE raised
            rec == [req[r] EXCEPT !.calls = @ + calls, !.topics = topics] IN
        IF raised # 0
        THEN /\ Move(r, Finish(rec, "500"))
             /\ UNCHANGED store
        ELSE IF rac = "HTTPError"
        THEN /\ Move(r, Finish(rec, "302 post install"))
             /\ UNCHANGED store
        ELSE /\ store' = update_where(strip_shop_address(req[r].shop),
                    LAMBDA row : rac_row(row, RacId))
             /\ Move(r, Finish([rec EXCEPT !.writes = @ + 1],
                               "302 post install"))
    /\ UNCHANGED <<clock, nonces, hist, tables>>

\* ---------------------------------------------------------------- webhooks
\* handle_webhook: the shop is the X-Shopify-Shop-Domain header, or else the
\* payload's "domain"; the request goes on only for an INSTALLED shop.
webhook_shop(header, domain) == IF header # NULL THEN header ELSE domain

handle_webhook_known(kind, header, domain) ==
    LET shop_address == webhook_shop(header, domain) IN
    IF shop_address = NULL
    THEN Finish([IdleReq EXCEPT !.kind = kind], "webhook_fail")
    ELSE LET sdbi == PGStoreInterface(kind, shop_address) IN
         IF sdbi.status = NOT_KNOWN
         THEN Finish(sdbi, "webhook_fail")
         ELSE [sdbi EXCEPT !.pc = "handled"]

handle_webhook(kind, header, domain) ==
    LET shop_address == webhook_shop(header, domain) IN
    IF shop_address = NULL
    THEN Finish([IdleReq EXCEPT !.kind = kind], "webhook_fail")
    ELSE LET sdbi == PGStoreInterface(kind, shop_address) IN
         IF sdbi.status # INSTALLED
         THEN Finish(sdbi, "webhook_fail")
         ELSE [sdbi EXCEPT !.pc = "handled"]

WebhookShops == ShopAddresses \cup {NULL}

app_uninstalled(r) ==
    \E header \in WebhookShops, domain \in WebhookShops :
        /\ Begin(r)
        /\ Move(r, handle_webhook("app_uninstalled", header, domain))
        /\ UNCHANGED <<store, clock, nonces, hist, tables>>

uninstall(r) ==
    /\ req[r].kind = "app_uninstalled"
    /\ req[r].pc = "handled"
    /\ clock' = clock + 1
    /\ store' = update_where(strip_shop_address(req[r].shop),
                             LAMBDA row : uninstall_row(row, clock'))
    /\ Move(r, Finish([req[r] EXCEPT !.writes = @ + 1], "uninstalled"))
    /\ UNCHANGED <<nonces, hist, tables>>

\* needs_rescope is set by no code of the app: an operator sets the column
\* when the SCOPES change, and app_launched reads it.
flag_rescope(shop) ==
    /\ \E i \in DOMAIN store : store[i].shop_address = shop
                               /\ ~store[i].needs_rescope
    /\ store' = update_where(shop, LAMBDA row : [row EXCEPT !.needs_rescope = TRUE])
    /\ resp' = IdleReq
    /\ UNCHANGED <<clock, nonces, req, hist, tables>>

\* ---------------------------------------------------------------- orders
\* total_line_items_price_set.shop_money.amount of a payload, in hundredths
\* of the currency unit ("100.00" is 10000).
Amounts == {10000, 999, 1005}

\* The order payloads the orders/create webhook delivers: o1 carries the
\* issued code D1, o2 no code, o3 a code with no DiscountRecord, o4 the code
\* D2 whose DiscountRecord is not issued on Shopify yet.
Orders ==
    {[id |-> "o1", customer |-> "c1", default_address |-> "a1",
      line_items |-> <<[id |-> "l1", discount_allocations |-> 1],
                       [id |-> "l2", discount_allocations |-> 0]>>,
      discount_codes |-> <<"D1">>,
      total_line_items_price |-> amount, currency_code |-> "AUD"]
        : amount \in Amounts}
    \cup
    {[id |-> "o2", customer |-> "c1", default_address |-> "a1",
      line_items |-> <<[id |-> "l3", discount_allocations |-> 0]>>,
      discount_codes |-> <<>>,
      total_line_items_price |-> 10000, currency_code |-> "AUD"],
     [id |-> "o3", customer |-> "c2", default_address |-> "a2",
      line_items |-> <<[id |-> "l4", discount_allocations |-> 1]>>,
      discount_codes |-> <<"ZZ">>,
      total_line_items_price |-> 10000, currency_code |-> "AUD"],
     [id |-> "o4", customer |-> "c2", default_address |-> "a2",
      line_items |-> <<[id |-> "l5", discount_allocations |-> 1]>>,
      discount_codes |-> <<"D2">>,
      total_line_items_price |-> 10000, currency_code |-> "AUD"]}

\* A row of an order table: its id column, the row it belongs to, its rank.
Row(key, parent, rank) == [key |-> key, parent |-> parent, rank |-> rank]

\* One load_json_to_database call: the table, the id_field (NULL when the
\* call passes none) and the munged row.
Load(table, id_field, row) == [table |-> table, id_field |-> id_field, row |-> row]

line_item_loads(order, item) ==
    <<Load("shopify_lineitem", Some("line_item_id"), Row(item.id, order.id, 0))>>
    \o [k \in 1..item.discount_allocations |->
            Load("shopify_lineitemdiscounts", NULL, Row("", item.id, k))]

RECURSIVE line_items_loads(_, _)
line_items_loads(order, i) ==
    IF i > Len(order.line_items) THEN <<>>
    ELSE line_item_loads(order, order.line_items[i])
         \o line_items_loads(order, i + 1)

\* The calls of load_data_to_db, in the order it makes them.
load_data_to_db(order) ==
    <<Load("shopify_address", Some("address_id"),
           Row(order.default_address, "", 0)),
      Load("shopify_customer", Some("customer_id"), Row(order.customer, "", 0)),
      Load("shopify_order", Some("order_id"), Row(order.id, order.customer, 0))>>
    \o [i \in 1..Len(order.discount_codes) |->
            Load("shopify_appliedorderdiscounts", NULL,
                 Row(order.discount_codes[i], order.id, i - 1))]
    \o line_items_loads(order, 1)
    \o <<Load("shopify_orderreferraldata", NULL, Row("", order.id, 0))>>

\* SELECT * FROM tbl WHERE id_field = id_value; the first row, or None.
check_exists(table, id_field, id_value) ==
    LET found == SelectSeq(tables[table], LAMBDA row : row.key = id_value) IN
    IF id_field = NULL \/ found = <<>> THEN NULL ELSE Some(found[1])

insert_model(table, data) == [tables EXCEPT ![table] = Append(@, data)]

\* UPDATE tbl SET <changed fields> WHERE id_field = id_value
update_model(table, data, old_data) ==
    [tables EXCEPT ![table] =
        [i \in DOMAIN @ |-> IF @[i].key = old_data.key THEN data ELSE @[i]]]

load_always_inserts(load, data_exists) == insert_model(load.table, load.row)

\* load_json_to_database: insert when check_exists found nothing, else update.
load_json_to_database(load, data_exists) ==
    IF data_exists = NULL THEN insert_model(load.table, load.row)
    ELSE update_model(load.table, load.row, Val(data_exists))

\* Where a request goes after its load number idx.
after_load(order, idx) ==
    LET loads == load_data_to_db(order) IN
    IF idx < Len(loads)
    THEN IF loads[idx + 1].id_field = NULL THEN "load_write" ELSE "check_exists"
    ELSE "find_discount"

order_created(r) ==
    \E header \in WebhookShops, domain \in WebhookShops, order \in Orders :
        LET handled == handle_webhook("order_created", header, domain) IN
        /\ Begin(r)
        /\ Len(tables.shopify_orderreferraldata) + Orders_in_flight < MaxDeliveries
        /\ Move(r, IF handled.pc = "done" THEN handled
                   ELSE [handled EXCEPT !.order = Some(order), !.idx = 1,
                                        !.pc = "check_exists"])
        /\ UNCHANGED <<store, clock, nonces, hist, tables>>

\* The check_exists of the load the request is at.
load_check(r) ==
    /\ req[r].pc = "check_exists"
    /\ LET load == load_data_to_db(Val(req[r].order))[req[r].idx] IN
       Move(r, [req[r] EXCEPT
                    !.exists = check_exists(load.table, load.id_field, load.row.key),
                    !.pc = "load_write"])
    /\ UNCHANGED <<store, clock, nonces, hist, tables>>

\* The insert_model or update_model of the load the request is at.
load_write(r) ==
    /\ req[r].pc = "load_write"
    /\ LET order == Val(req[r].order)
           load == load_data_to_db(order)[req[r].idx]
           next == after_load(order, req[r].idx)
           rec == [req[r] EXCEPT !.writes = @ + 1, !.exists = NULL,
                                 !.idx = IF next = "find_discount" THEN 1
                                         ELSE @ + 1,
                                 !.pc = next] IN
       /\ tables' = load_json_to_database(load, req[r].exists)
       /\ Move(r, IF next = "find_discount" /\ order.discount_codes = <<>>
                  THEN Finish(rec, "OK") ELSE rec)
    /\ UNCHANGED <<store, clock, nonces, hist>>

\* SELECT * FROM shopify_pricerulediscount WHERE discount_code = ...
discount_query(discount_name) ==
    SelectSeq(tables.shopify_pricerulediscount,
              LAMBDA prd : prd.discount_code = discount_name)

\* One find_discount of process_order's dict comprehension: iloc[0] of an
\* empty result raises IndexError.
find_discount(r) ==
    /\ req[r].pc = "find_discount"
    /\ LET order == Val(req[r].order)
           code == order.discount_codes[req[r].idx]
           found == discount_query(code) IN
       Move(r, IF found = <<>> THEN Finish(req[r], "500 IndexError")
               ELSE [req[r] EXCEPT
                        !.matches = Append(@, found[1]),
                        !.idx = @ + 1,
                        !.pc = IF req[r].idx = Len(order.discount_codes)
                               THEN "create_kickback" ELSE "find_discount"])
    /\ UNCHANGED <<store, clock, nonces, hist, tables>>

\* get_discount_config(business.id).endorser_kickback_percent
endorser_kickback_percent ==
    tables.businesses_discountconfiguration[1].endorser_kickback_percent

\* float(amount) * endorser_kickback_percent / 100.0, in ten-thousandths of
\* the currency unit.
kickback_units(order) == order.total_line_items_price * endorser_kickback_percent

build_sql_str_truncates(value) == {value \div 100}

\* build_sql_str of a float, str(round(value, 2)): the values, in hundredths,
\* round can give.  Half a hundredth goes to either neighbour, as the binary
\* value of the float decides.
build_sql_str(value) ==
    LET q == value \div 100
        rest == value % 100 IN
    IF rest < 50 THEN {q} ELSE IF rest > 50 THEN {q + 1} ELSE {q, q + 1}

\* The Kickback row insert_model writes for create_kickback's dict.
create_kickback(order, prd_obj, kickback) ==
    [order_id |-> order.id, prd_id |-> prd_obj.discount_code,
     kickback |-> kickback, kickback_currency |-> order.currency_code]

\* handle_matched_discount: the first match's Kickback row is inserted; then
\* create_usage_charge reads kickback["kickback_units"], a key create_kickback
\* never sets (KeyError), or, with no rac_id, convert_prd is handed
\* prd_obj.discount_name, a column the record has not (AttributeError).
handle_matched_discount(r) ==
    /\ req[r].pc = "create_kickback"
    /\ LET order == Val(req[r].order)
           prd_obj == req[r].matches[1] IN
       /\ \E kickback \in build_sql_str(kickback_units(order)) :
            tables' = insert_model("endorser_kickback",
                                   create_kickback(order, prd_obj, kickback))
       /\ Move(r, Finish([req[r] EXCEPT !.writes = @ + 1],
                         IF Val(req[r].data).rac_id # NULL THEN "500 KeyError"
                         ELSE "500 AttributeError"))
    /\ UNCHANGED <<store, clock, nonces, hist>>

\* ---------------------------------------------------------------- create_discount
\* The "discount_name" of the JSON body: a code with a DiscountRecord, a code
\* with none, or no such key.
DiscountNames == {Some("D1"), Some("D2"), Some("ZZ"), NULL}

\* create_discount logs request.json() before it reads its argument.  json
\* is a property of the Flask request, so the call applies the parsed body
\* (a dict, or None) as a function: a TypeError, whatever the body.  The
\* lookup, the not-found answer and create_prds_on_shopify are never reached.
create_discount(r) ==
    \E discount_name \in DiscountNames :
        /\ Begin(r)
        /\ Move(r, Finish([IdleReq EXCEPT !.kind = "create_discount",
                                          !.discount_name = discount_name],
                          "500 TypeError"))
        /\ UNCHANGED <<store, clock, nonces, hist, tables>>

\* ---------------------------------------------------------------- issuance
\* An object Shopify created: a price rule, or a discount code under a price
\* rule.  hist.created lists them in the order of the calls that created
\* them, and the id Shopify returns is the object's place in that list.
Created(kind, id, price_rule_id) ==
    [kind |-> kind, id |-> id, price_rule_id |-> price_rule_id]

\* The two objects DiscountRecord D1 was issued with.
InitCreated ==
    <<Created("price_rule", 1, NULL), Created("discount_code", 2, Some(1))>>

\* create_price_rule / create_discount_code: the object of the response, or
\* None when authenticated_shopify_call caught an HTTPError.
create_response(outcome, id) == IF outcome = "ok" THEN Some([id |-> id]) ELSE NULL

\* UPDATE shopify_pricerulediscount SET price_rule_id = ..., discount_id = ...
\* WHERE discount_code = discount_name
assign_prd_ids(discount_name, price_rule_id, discount_id) ==
    [tables EXCEPT !.shopify_pricerulediscount =
        [i \in DOMAIN @ |->
            IF @[i].discount_code = discount_name
            THEN [@[i] EXCEPT !.price_rule_id = Some(price_rule_id),
                              !.discount_id = Some(discount_id)]
            ELSE @[i]]]

\* The shopify_address of the business a DiscountRecord belongs to.
get_shopify_store_from_discount(prd_obj) == <<"s1.myshopify.com">>

\* create_prds_on_shopify(prd_obj), called with a DiscountRecord of the
\* table.  It reads the shop's access_token (KeyError when the shop has no
\* record), creates the price rule, creates the discount code under
\* pr_response["id"], and writes both ids; subscripting the None of a failed
\* create raises TypeError.  It reads neither price_rule_id nor discount_id
\* of the record it is given.
create_prds_on_shopify(r) ==
    \E i \in DOMAIN tables.shopify_pricerulediscount,
       pr \in GatewayOutcomes, dc \in GatewayOutcomes :
        LET prd_obj == tables.shopify_pricerulediscount[i]
            sdbi == [PGStoreInterface("create_prds_on_shopify",
                                      get_shopify_store_from_discount(prd_obj))
                        EXCEPT !.matches = <<prd_obj>>]
            pr_id == Len(hist.created) + 1
            dc_id == pr_id + 1
            pr_response == create_response(pr, pr_id)
            discount_response == create_response(dc, dc_id)
            pr_created == Append(hist.created, Created("price_rule", pr_id, NULL))
            dc_created == Append(pr_created,
                                 Created("discount_code", dc_id, Some(pr_id)))
            called == [hist EXCEPT !.issues = @ + 1] IN
        /\ Begin(r)
        /\ hist.issues < MaxIssues
        /\ IF sdbi.data = NULL
           THEN /\ Move(r, Finish(sdbi, "500 KeyError"))
                /\ hist' = called
                /\ UNCHANGED tables
           ELSE IF pr # "ok"
           THEN /\ Move(r, Finish([sdbi EXCEPT !.calls = 1],
                                  IF pr = "raise" THEN "500" ELSE "500 TypeError"))
                /\ hist' = called
                /\ UNCHANGED tables
           ELSE IF dc # "ok"
           THEN /\ Move(r, Finish([sdbi EXCEPT !.calls = 2],
                                  IF dc = "raise" THEN "500" ELSE "500 TypeError"))
                /\ hist' = [called EXCEPT !.created = pr_created]
                /\ UNCHANGED tables
           ELSE /\ Move(r, Finish([sdbi EXCEPT !.calls = 2, !.writes = 1],
                                  "issued"))
                /\ hist' = [called EXCEPT !.created = dc_created]
                /\ tables' = assign_prd_ids(prd_obj.discount_code,
                                            Val(pr_response).id,
                                            Val(discount_response).id)
        /\ UNCHANGED <<store, clock, nonces>>

\* ---------------------------------------------------------------- system
InitTables ==
    [shopify_address |-> <<>>, shopify_customer |-> <<>>, shopify_order |-> <<>>,
     shopify_appliedorderdiscounts |-> <<>>, shopify_lineitem |-> <<>>,
     shopify_lineitemdiscounts |-> <<>>, shopify_orderreferraldata |-> <<>>,
     endorser_kickback |-> <<>>,
     businesses_discountconfiguration |-> <<[endorser_kickback_percent |-> 10]>>,
     shopify_pricerulediscount |->
        <<[discount_code |-> "D1", price_rule_id |-> Some(1),
           discount_id |-> Some(2), converted |-> FALSE],
          [discount_code |-> "D2", price_rule_id |-> NULL,
           discount_id |-> NULL, converted |-> FALSE]>>]

Init ==
    /\ store = <<>>
    /\ clock = 0
    /\ nonces = 0
    /\ req = [r \in Req |-> IdleReq]
    /\ resp = IdleReq
    /\ hist = [confirms |-> <<>>, created |-> InitCreated, issues |-> 0]
    /\ tables = InitTables

\* The steps and arrivals of the requests that touch shopify_shopifystore.
InstallStep(r) ==
    \/ request_install(r)
    \/ request_reinstall(r)
    \/ launch_redirect(r)
    \/ confirm_installation(r)
    \/ post_install(r)
    \/ uninstall(r)

InstallArrive(r) ==
    \/ app_launched(r)
    \/ app_installed(r)
    \/ app_uninstalled(r)

\* The steps of process_order.
OrderStep(r) ==
    \/ load_check(r)
    \/ load_write(r)
    \/ find_discount(r)
    \/ handle_matched_discount(r)

\* Spec: the installation requests, their statements interleaved.  The order
\* webhook writes nothing to shopify_shopifystore and is left to SeqSpec.
Next ==
    \/ \E r \in Req : InstallArrive(r)
    \/ \E r \in Req : InstallStep(r)
    \/ \E shop \in ShopHosts : flag_rescope(shop)

Spec == Init /\ [][Next]_vars

\* SeqSpec: every request of the app, one at a time: a request arrives only
\* when none is in flight.
NoneInFlight == \A q \in Req : ~InFlight(q)

SeqNext ==
    \/ \E r \in Req : NoneInFlight /\ InstallArrive(r)
    \/ \E r \in Req : NoneInFlight /\ order_created(r)
    \/ \E r \in Req : NoneInFlight /\ create_discount(r)
    \/ \E r \in Req : InstallStep(r)
    \/ \E r \in Req : OrderStep(r)
    \/ \E shop \in ShopHosts : flag_rescope(shop)

SeqSpec == Init /\ [][SeqNext]_vars

\* IssueSpec: create_prds_on_shopify called as a function on the records of
\* shopify_pricerulediscount, between the installation requests, one at a
\* time.  The create_discount route never comes to the call (it raises
\* before), so SeqSpec does not hold it.
IssueNext ==
    \/ \E r \in Req : NoneInFlight /\ InstallArrive(r)
    \/ \E r \in Req : NoneInFlight /\ create_prds_on_shopify(r)
    \/ \E r \in Req : InstallStep(r)
    \/ \E shop \in ShopHosts : flag_rescope(shop)

IssueSpec == Init /\ [][IssueNext]_vars

\* FairSeqSpec: SeqSpec in which a request that has arrived runs to its end:
\* a Flask handler, once entered, executes its statements until it returns.
\* Nothing obliges a further request to arrive.
FairSeqSpec ==
    /\ SeqSpec
    /\ \A r \in Req : WF_vars(InstallStep(r)) /\ WF_vars(OrderStep(r))

\* ---------------------------------------------------------------- properties
Slots == {req[r] : r \in {q \in Req : InFlight(q)}}

\* The requests of a state: those in flight and the one just answered.
Requests == Slots \cup {resp}

Rows(shop) == {query_result(shop)[i] : i \in DOMAIN query_result(shop)}

\* The shop's rows after the step.
query_result_next(shop) ==
    SelectSeq(store', LAMBDA row : row.shop_address = shop)

RowsNext(shop) ==
    {query_result_next(shop)[i] : i \in DOMAIN query_result_next(shop)}

row_status(row) == get_store_status(<<row>>)

Rejections == {"400 not requested", "400 invalid state"}

GuardsHold(rec) ==
    /\ rec.status = INSTALL_REQUESTED
    /\ rec.data # NULL
    /\ rec.state = Val(rec.data).nonce

\* The step in which request r runs confirm_installation's UPDATE.
ConfirmWrite(r) ==
    req[r].pc = "authenticate" /\ req'[r].pc = "create_webhooks"

C1_Decision ==
    /\ \A rec \in Slots : rec.kind = "app_installed" => GuardsHold(rec)
    /\ resp.kind = "app_installed" =>
        /\ resp.writes > 0 => GuardsHold(resp)
        /\ GuardsHold(resp) => resp.result \in {"302 post install", "500"}
        /\ resp.result = "302 post install" => resp.writes > 0
        /\ ~GuardsHold(resp) =>
            /\ resp.result \in Rejections
            /\ resp.writes = 0
            /\ resp.calls = 0

C1_Effect ==
    /\ \A r \in Req : ConfirmWrite(r) =>
        /\ GuardsHold(req[r])
        /\ \A row \in RowsNext(strip_shop_address(req[r].shop)) :
            /\ row.install_time = Some(clock')
            /\ row.access_token # NULL
    /\ (resp'.kind = "app_installed" /\ resp'.result \in Rejections)
            => store' = store

\* C1: app_installed confirms an installation (its UPDATE sets install_time
\* and access_token) only for a callback that read status INSTALL_REQUESTED
\* and carries the stored nonce; such a callback is never rejected; a callback
\* that read any other status, or carries another state, is rejected with a
\* 400, calls nothing, writes nothing and leaves the store as it was.
C1_ConfirmIffRequestedAndNonce == []C1_Decision /\ [][C1_Effect]_vars

\* A callback that read INSTALL_REQUESTED and carried the stored nonce has
\* confirmed and been answered with the post-install redirect.
C1_Witness ==
    /\ resp.kind = "app_installed"
    /\ resp.result = "302 post install"
    /\ GuardsHold(resp)
    /\ resp.writes > 0
    /\ \E row \in Rows(strip_shop_address(resp.shop)) :
        row.install_time # NULL /\ row.access_token # NULL

\* C2: in every reachable state, the record the app reads for a shop (the
\* first row of its SELECT) has a non-null access_token exactly when the
\* status derived from it is INSTALLED.
C2_TokenIffInstalled ==
    \A shop \in ShopHosts :
        query_result(shop) # <<>> =>
            ((query_result(shop)[1].access_token # NULL)
                <=> (get_store_status(query_result(shop)) = INSTALLED))

StatusTable(rec) ==
    /\ rec.data = NULL => rec.status = NOT_KNOWN
    /\ (rec.data # NULL /\ Val(rec.data).install_time = NULL)
            => rec.status = INSTALL_REQUESTED
    /\ (rec.data # NULL /\ Val(rec.data).install_time # NULL
            /\ Val(rec.data).uninstall_time = NULL) => rec.status = INSTALLED
    /\ (rec.data # NULL /\ Val(rec.data).install_time # NULL
            /\ Val(rec.data).uninstall_time # NULL) => rec.status = UNINSTALLED

\* C3: the status a request derives from the row it read is NOT_KNOWN for no
\* row, INSTALL_REQUESTED for install_time null whatever uninstall_time is,
\* INSTALLED for install_time set and uninstall_time null, UNINSTALLED for both
\* set.
C3_StatusDerivation ==
    \A rec \in Requests : rec.status # "" => StatusTable(rec)

\* A request read a row with install_time null and uninstall_time set.
C3_Witness ==
    \E rec \in Requests :
        /\ rec.data # NULL
        /\ Val(rec.data).install_time = NULL
        /\ Val(rec.data).uninstall_time # NULL
        /\ rec.status = INSTALL_REQUESTED

\* C4: no nonce confirms two installations: the states carried by the
\* callbacks that ran confirm_installation's UPDATE are all different.
C4_NonceConfirmsOnce ==
    \A i, j \in DOMAIN hist.confirms :
        i # j => hist.confirms[i] # hist.confirms[j]

\* The step in which request r runs request_reinstall's UPDATE.
ReinstallWrite(r) ==
    req[r].pc = "request_reinstall" /\ req'[r].pc = "get_store_info"

C5_Effect ==
    \A r \in Req : ReinstallWrite(r) =>
        \A i \in DOMAIN store :
            store[i].shop_address = strip_shop_address(req[r].shop) =>
                /\ row_status(store'[i]) = INSTALL_REQUESTED
                /\ store'[i].access_token = NULL
                /\ store'[i].install_time = NULL
                /\ store'[i].uninstall_time = NULL
                /\ store'[i].rac_id = NULL
                /\ \A k \in DOMAIN store : store'[i].nonce # store[k].nonce

\* C5: request_reinstall's UPDATE leaves the shop's record with status
\* INSTALL_REQUESTED, access_token, install_time, uninstall_time and rac_id
\* null, and a nonce that differs from every nonce stored before it.
C5_ReinstallResets == [][C5_Effect]_vars

\* A launch that read UNINSTALLED has just run request_reinstall.
C5_Witness ==
    \E r \in Req :
        /\ req[r].pc = "get_store_info"
        /\ req[r].status = UNINSTALLED
        /\ \A row \in Rows(strip_shop_address(req[r].shop)) :
            /\ row_status(row) = INSTALL_REQUESTED
            /\ row.access_token = NULL
            /\ row.nonce # Val(req[r].data).nonce

\* The step in which request r runs uninstall's UPDATE.
UninstallWrite(r) ==
    req[r].kind = "app_uninstalled" /\ req[r].pc = "handled" /\ req'[r].pc = "idle"

C6_Effect ==
    \A r \in Req : UninstallWrite(r) =>
        /\ get_store_status(query_result(strip_shop_address(req[r].shop)))
                = INSTALLED
        /\ \A row \in RowsNext(strip_shop_address(req[r].shop)) :
            /\ row.uninstall_time # NULL
            /\ row.access_token = NULL
            /\ row.rac_id = NULL
        /\ get_store_status(query_result_next(strip_shop_address(req[r].shop)))
                = UNINSTALLED

\* C6: uninstall's UPDATE is applied only to a record that is INSTALLED when
\* it is written, and leaves it UNINSTALLED with uninstall_time set and
\* access_token and rac_id null.
C6_UninstallOnlyInstalled == [][C6_Effect]_vars

\* C7: app_launched goes on to an install or reinstall, and answers with the
\* redirect that carries the stored nonce, for every status but INSTALLED; it
\* answers without a redirect and without a write exactly when the status it
\* read is INSTALLED.
C7_LaunchRedirectsUnlessInstalled ==
    /\ \A rec \in Slots :
        rec.pc \in {"request_install", "request_reinstall"}
            => rec.status # INSTALLED
    /\ resp.kind = "app_launched" =>
        \/ /\ resp.result = "302 authorize"
           /\ resp.nonce_out = Some(Val(resp.data).nonce)
        \/ /\ resp.result # "302 authorize"
           /\ resp.status = INSTALLED
           /\ resp.writes = 0

WebhookKinds == {"app_uninstalled", "order_created"}

C8_Decision ==
    /\ \A rec \in Slots : rec.kind \in WebhookKinds =>
        rec.shop # NULL /\ rec.status = INSTALLED
    /\ (resp.kind \in WebhookKinds
            /\ (resp.shop = NULL \/ resp.status # INSTALLED)) =>
        /\ resp.result = "webhook_fail"
        /\ resp.writes = 0
        /\ resp.calls = 0
        /\ resp.order = NULL

C8_Effect ==
    resp'.result = "webhook_fail" => store' = store /\ tables' = tables

\* C8: a webhook for a shop that is not INSTALLED, or with no shop in header
\* and payload, answers the webhook_fail string; it never goes on to uninstall
\* or to process_order, and it writes no table and calls no Gateway.
C8_NotInstalledWebhookFails == []C8_Decision /\ [][C8_Effect]_vars

\* An order webhook for an UNINSTALLED shop was answered with the failure.
C8_Witness ==
    /\ resp.kind = "order_created"
    /\ resp.status = UNINSTALLED
    /\ resp.result = "webhook_fail"

\* The step in which request r runs request_install's INSERT.
InstallWrite(r) ==
    req[r].pc = "request_install" /\ req'[r].pc = "get_store_info"

\* C9: the store holds at most one record per shop address, and
\* request_install's INSERT runs only when the shop has no record.
C9_OneRecordPerShop ==
    /\ [](\A shop \in ShopHosts : Len(query_result(shop)) <= 1)
    /\ [][\A r \in Req : InstallWrite(r) =>
            query_result(strip_shop_address(req[r].shop)) = <<>>]_vars

Count(table, key) ==
    Len(SelectSeq(tables[table], LAMBDA row : row.key = key))

Delivered(order) ==
    Len(SelectSeq(tables.shopify_orderreferraldata,
                  LAMBDA row : row.parent = order.id))

OneRowEach(order) ==
    /\ Count("shopify_order", order.id) = 1
    /\ \A i \in DOMAIN order.line_items :
        Count("shopify_lineitem", order.line_items[i].id) = 1

\* C10: however often an order payload is delivered, shopify_order holds one
\* row for its id and shopify_lineitem one row for each of its line items.
C10_OneOrderRow ==
    /\ \A order \in Orders :
        /\ Count("shopify_order", order.id) <= 1
        /\ \A i \in DOMAIN order.line_items :
            Count("shopify_lineitem", order.line_items[i].id) <= 1
        /\ Delivered(order) > 0 => OneRowEach(order)
    /\ (resp.kind = "order_created" /\ resp.order # NULL)
            => OneRowEach(Val(resp.order))

\* The same payload was processed twice, to the end of load_data_to_db.
C10_Witness ==
    \E order \in Orders :
        /\ Delivered(order) = 2
        /\ Len(order.line_items) = 2
        /\ OneRowEach(order)

KickbackCount(order_id, discount_code) ==
    Len(SelectSeq(tables.endorser_kickback,
                  LAMBDA k : k.order_id = order_id /\ k.prd_id = discount_code))

\* The answered request went through handle_matched_discount.
Matched(rec) == rec.kind = "order_created" /\ rec.matches # <<>>

\* A pending DiscountRecord: not converted, and issued on Shopify.
Pending(prd) == ~prd.converted /\ prd.price_rule_id # NULL

PendingCodes ==
    {tables.shopify_pricerulediscount[i].discount_code :
        i \in {j \in DOMAIN tables.shopify_pricerulediscount :
                  Pending(tables.shopify_pricerulediscount[j])}}

\* C11: however often order webhooks are delivered, replays included,
\* endorser_kickback holds at most one row per order id and discount code, and
\* exactly one for the order and code handle_matched_discount has handled.
\* Stated for the codes of pending DiscountRecords, the matches of the claim.
C11_OneKickbackPerMatch ==
    /\ \A order \in Orders : \A i \in DOMAIN order.discount_codes :
        order.discount_codes[i] \in PendingCodes =>
            KickbackCount(order.id, order.discount_codes[i]) <= 1
    /\ (Matched(resp) /\ resp.matches[1].discount_code \in PendingCodes) =>
        KickbackCount(Val(resp.order).id, resp.matches[1].discount_code) = 1

\* The Kickback row the answered request inserted.
LastKickback == tables.endorser_kickback[Len(tables.endorser_kickback)]

\* C12: the Kickback row persisted for a matched order holds the order's
\* total_line_items shop amount times endorser_kickback_percent / 100, rounded
\* to two decimals (no further than half a hundredth from the exact product),
\* and the shop_money currency code.
C12_KickbackAmount ==
    Matched(resp) =>
        LET order == Val(resp.order) IN
        /\ LastKickback.order_id = order.id
        /\ LastKickback.kickback * 100 - kickback_units(order) <= 50
        /\ kickback_units(order) - LastKickback.kickback * 100 <= 50
        /\ (kickback_units(order) % 100 = 0 =>
                LastKickback.kickback * 100 = kickback_units(order))
        /\ LastKickback.kickback_currency = order.currency_code

\* 9.99 at 10 percent was persisted as 1.00.
C12_Witness ==
    /\ Matched(resp)
    /\ Val(resp.order).total_line_items_price = 999
    /\ endorser_kickback_percent = 10
    /\ LastKickback.kickback = 100
    /\ LastKickback.kickback_currency = "AUD"

\* The DiscountRecords stored under a discount code.
Discounts(discount_code) ==
    {tables.shopify_pricerulediscount[i] :
        i \in {j \in DOMAIN tables.shopify_pricerulediscount :
                  tables.shopify_pricerulediscount[j].discount_code = discount_code}}

\* C13: once process_order has handled an order whose code matched a pending
\* DiscountRecord, that record is converted, with or without a rac_id; and a
\* converted record never goes back to not converted.
C13_MatchedIsConverted ==
    /\ []((Matched(resp) /\ Pending(resp.matches[1])) =>
            \A prd \in Discounts(resp.matches[1].discount_code) : prd.converted)
    /\ [][\A i \in DOMAIN tables.shopify_pricerulediscount :
            tables.shopify_pricerulediscount[i].converted
                => tables'.shopify_pricerulediscount[i].converted]_vars

NoPendingCode(order) ==
    \A i \in DOMAIN order.discount_codes : order.discount_codes[i] \notin PendingCodes

\* C14: for an order none of whose codes has a pending DiscountRecord,
\* process_order persists the order, inserts no Kickback row, calls no
\* Gateway, and leaves every DiscountRecord as it was.
C14_NoMatchNoKickback ==
    /\ [](\A order \in Orders : NoPendingCode(order) =>
            \A i \in DOMAIN tables.endorser_kickback :
                tables.endorser_kickback[i].order_id # order.id)
    /\ []((resp.kind = "order_created" /\ resp.order # NULL
                /\ NoPendingCode(Val(resp.order))) =>
            /\ OneRowEach(Val(resp.order))
            /\ resp.calls = 0)
    /\ [][tables'.shopify_pricerulediscount = tables.shopify_pricerulediscount]_vars

\* C15: a failed Gateway call gives its caller None and raises nothing, and
\* app_installed does not confirm an installation with the None of a failed
\* token exchange: a callback that has written holds a token, no record
\* stores the text of None as its access_token, and no callback ends in an
\* unhandled exception.
C15_NoResultNotUsed ==
    /\ \A rec \in Requests : rec.kind = "app_installed" =>
        /\ rec.writes > 0 => rec.token # NULL
        /\ rec.result # "500"
    /\ \A i \in DOMAIN store : store[i].access_token # sql_quote(NULL)

\* The step in which request r runs the Gateway calls after the confirmation.
PostInstall(r) == req[r].pc = "create_webhooks" /\ req'[r].pc = "idle"

C16_Effect ==
    \A r \in Req : PostInstall(r) =>
        /\ \A i \in DOMAIN store :
            /\ store'[i].install_time = store[i].install_time
            /\ store'[i].access_token = store[i].access_token
        /\ resp'.writes = 1 => store' = store
        /\ resp'.writes = 2 =>
            \A row \in RowsNext(strip_shop_address(req[r].shop)) :
                row.rac_id = Some(RacId)

\* C16: a callback that has confirmed the installation calls create_webook
\* for each topic of WEBHOOKS and then create_recurring_application_charges;
\* it stores rac_id exactly when the charge call returned a result, and these
\* calls leave install_time and access_token as confirmed.
C16_PostInstallCalls ==
    /\ []((resp.kind = "app_installed" /\ resp.writes > 0) =>
            /\ resp.topics = Len(WEBHOOKS)
            /\ resp.calls = Len(WEBHOOKS) + 2)
    /\ [][C16_Effect]_vars

\* C17: the manual trigger for a code with no DiscountRecord is answered with
\* the not-found message, and calls no Gateway and writes no DiscountRecord.
C17_UnknownDiscountRejected ==
    /\ []((resp.kind = "create_discount" /\ resp.discount_name # NULL
                /\ Discounts(Val(resp.discount_name)) = {}) =>
            /\ resp.result = "Couldn't find discount_code"
            /\ resp.calls = 0
            /\ resp.writes = 0)
    /\ [][resp'.kind = "create_discount" => tables' = tables]_vars

\* The rows of a table without id column that belong to parent at rank.
CountOf(table, parent, rank) ==
    Len(SelectSeq(tables[table],
                  LAMBDA row : row.parent = parent /\ row.rank = rank))

\* C18: replaying an order payload leaves the row counts of
\* shopify_appliedorderdiscounts, shopify_lineitemdiscounts and
\* shopify_orderreferraldata as they were: however often an order is
\* delivered, each holds one row per discount code, per discount allocation
\* and per order.
C18_AllLoadsUpsert ==
    \A order \in Orders :
        /\ CountOf("shopify_orderreferraldata", order.id, 0) <= 1
        /\ \A i \in DOMAIN order.discount_codes :
            CountOf("shopify_appliedorderdiscounts", order.id, i - 1) <= 1
        /\ \A i \in DOMAIN order.line_items :
            \A k \in 1..order.line_items[i].discount_allocations :
                CountOf("shopify_lineitemdiscounts", order.line_items[i].id, k) <= 1

\* C19: handle_matched_discount inserts the Kickback row, then issues the
\* usage charge, then marks the DiscountRecord converted, then deletes the
\* price rule and the discount code on Shopify: a converted DiscountRecord
\* has a Kickback row, an order request reaches the Gateway only with its
\* Kickback row inserted, and a matched order that has been handled has its
\* Kickback row, its DiscountRecord converted and both deletions attempted.
C19_EffectsInOrder ==
    /\ \A i \in DOMAIN tables.shopify_pricerulediscount :
        tables.shopify_pricerulediscount[i].converted =>
            \E k \in DOMAIN tables.endorser_kickback :
                tables.endorser_kickback[k].prd_id
                    = tables.shopify_pricerulediscount[i].discount_code
    /\ \A rec \in Requests : (rec.kind = "order_created" /\ rec.calls > 0) =>
        /\ Matched(rec)
        /\ KickbackCount(Val(rec.order).id, rec.matches[1].discount_code) > 0
    /\ (Matched(resp) /\ Pending(resp.matches[1])) =>
        /\ KickbackCount(Val(resp.order).id, resp.matches[1].discount_code) > 0
        /\ \A prd \in Discounts(resp.matches[1].discount_code) : prd.converted
        /\ resp.calls >= 2

\* C20: a matched order of a shop with a stored rac_id issues one usage charge
\* to the Gateway before its DiscountRecord is marked converted and the two
\* deletions are sent; with no rac_id the deletions are the only Gateway
\* calls.
C20_UsageChargeIssued ==
    (Matched(resp) /\ Pending(resp.matches[1])) =>
        IF Val(resp.data).rac_id # NULL
        THEN /\ resp.calls = 3
             /\ \A prd \in Discounts(resp.matches[1].discount_code) : prd.converted
        ELSE resp.calls <= 2

\* C21: a Gateway failure while handle_matched_discount deletes the price
\* rule or the discount code does not raise out of process_order and undoes
\* nothing: whatever the Gateway answers, the request that handled a matched
\* order returns normally, with the Kickback row inserted, the DiscountRecord
\* converted, and both deletions attempted.
C21_DeletionFailureSwallowed ==
    (Matched(resp) /\ Pending(resp.matches[1])) =>
        /\ resp.result = "OK"
        /\ resp.calls >= 2
        /\ KickbackCount(Val(resp.order).id, resp.matches[1].discount_code) > 0
        /\ \A prd \in Discounts(resp.matches[1].discount_code) : prd.converted

\* The DiscountRecords of the table.
DiscountRecords ==
    {tables.shopify_pricerulediscount[i] :
        i \in DOMAIN tables.shopify_pricerulediscount}

\* The record's ids are those of a price rule Shopify created and of a
\* discount code Shopify created after it, under it.
IdsFromCreates(prd) ==
    \E j, k \in DOMAIN hist.created :
        /\ j < k
        /\ hist.created[j] = Created("price_rule", Val(prd.price_rule_id), NULL)
        /\ hist.created[k] = Created("discount_code", Val(prd.discount_id),
                                     prd.price_rule_id)

C22_BothOrNeither ==
    \A prd \in DiscountRecords :
        \/ prd.price_rule_id = NULL /\ prd.discount_id = NULL
        \/ /\ prd.price_rule_id # NULL
           /\ prd.discount_id # NULL
           /\ IdsFromCreates(prd)

\* The answered request is a call of create_prds_on_shopify.
Issuance(rec) == rec.kind = "create_prds_on_shopify"

C22_FailureLeavesNull ==
    (Issuance(resp) /\ resp.matches[1].price_rule_id = NULL
            /\ resp.result # "issued") =>
        \A prd \in Discounts(resp.matches[1].discount_code) :
            prd.price_rule_id = NULL /\ prd.discount_id = NULL

C22_OnlyUnissued ==
    (Issuance(resp) /\ resp.calls > 0) => resp.matches[1].price_rule_id = NULL

\* C22: in every reachable state a DiscountRecord's price_rule_id and
\* discount_id are both null, or both hold the ids of a price rule and of a
\* discount code created under it afterwards by successful Gateway calls; a
\* create_prds_on_shopify in which either create call failed leaves both
\* null; and create_prds_on_shopify reaches the Gateway only for a record
\* whose price_rule_id is null.
C22_IdsNullUntilIssued ==
    /\ C22_BothOrNeither
    /\ C22_FailureLeavesNull
    /\ C22_OnlyUnissued

\* The step in which request r runs update_rac_id's UPDATE.
RacWrite(r) == PostInstall(r) /\ resp'.writes = req[r].writes + 1

C23_Effect ==
    \A r \in Req : RacWrite(r) =>
        /\ get_store_status(query_result(strip_shop_address(req[r].shop)))
                = INSTALLED
        /\ \A i \in DOMAIN store :
            /\ store'[i].install_time = store[i].install_time
            /\ store'[i].uninstall_time = store[i].uninstall_time
            /\ store'[i].nonce = store[i].nonce
            /\ store'[i].access_token = store[i].access_token

\* C23: in every reachable state, the install callback interleaved with an
\* app/uninstalled webhook included, the record the app reads for a shop (the
\* first row of its SELECT) holds a rac_id only while its status is
\* INSTALLED; update_rac_id's UPDATE is applied only to a record that is
\* INSTALLED when it is written, and it changes none of install_time,
\* uninstall_time, nonce and access_token.
C23_RacOnlyWhileInstalled ==
    /\ [](\A shop \in ShopHosts :
            (query_result(shop) # <<>> /\ query_result(shop)[1].rac_id # NULL)
                => get_store_status(query_result(shop)) = INSTALLED)
    /\ [][C23_Effect]_vars

\* An app/uninstalled webhook for the shop has been delivered: it is in
\* flight, or it has just been answered.
UninstallDelivered(shop) ==
    \/ \E r \in Req : /\ req[r].kind = "app_uninstalled"
                      /\ strip_shop_address(req[r].shop) = shop
    \/ /\ resp.kind = "app_uninstalled"
       /\ resp.shop # NULL
       /\ strip_shop_address(resp.shop) = shop

\* The app has been installed on the shop: a callback confirmed it.
HasBeenInstalled(shop) == hist.confirms # <<>> /\ query_result(shop) # <<>>

StoredUninstalled(shop) ==
    /\ get_store_status(query_result(shop)) = UNINSTALLED
    /\ query_result(shop)[1].access_token = NULL

\* C24: every app/uninstalled webhook delivered for a shop on which the app
\* has been installed leads to the shop's stored status being UNINSTALLED
\* with access_token null, also when it is delivered after a launch has put
\* the INSTALLED shop with needs_rescope back to INSTALL_REQUESTED.
C24_UninstallEventuallyStored ==
    \A shop \in ShopHosts :
        (HasBeenInstalled(shop) /\ UninstallDelivered(shop))
            ~> StoredUninstalled(shop)

====
